---- MODULE Spec2Model ----
(***************************************************************************)
(* A model of the HTTP server of src/src/main.rs: the request parser, the  *)
(* router with its static file and POST handlers, the MIME resolver, and   *)
(* the accept loop with one task per connection.                           *)
(*                                                                         *)
(* Text is a sequence of characters, each a one-character string. Two      *)
(* elements stand for what is not ASCII: INVALID_BYTE is a byte of the     *)
(* socket buffer that is not valid UTF-8, and REPLACEMENT is the character *)
(* U+FFFD that String::from_utf8_lossy puts in its place (3 bytes long).   *)
(***************************************************************************)
EXTENDS Naturals, Sequences, FiniteSets, TLC

VARIABLES
    listener,   \* main's position: "init", "bind_failed", "listening", "accept_failed"
    conns,      \* per connection: the spawned task's position and its local data
    disk,       \* the files under the working directory: a set of <<path, contents>>
    arg,        \* the argument of the function called (specifications of one function)
    ret         \* <<>> before the call, <<result>> after it

vars == <<listener, conns, disk, arg, ret>>

\* ------------------------------------------------------------------ bounds

\* Connections the accept loop takes in one run.
MaxConns == 2
\* Lines of a raw request given to the parser.
MaxLines == 5
\* Pieces a file path given to the MIME resolver is built from.
MaxPathPieces == 3
\* Characters of a request body given to the router.
MaxBodyLen == 2
\* Entries of a headers map given to the router.
MaxHeaders == 1

\* ---------------------------------------------------------------- literals

INVALID_BYTE == "0xFF"
REPLACEMENT == "U+FFFD"

\* the literal \n (main.rs:81)
LF ==
    <<"\n">>
\* the literal :  (main.rs:84)
COLON_SPACE ==
    <<":", " ">>
\* the literal GET (main.rs:109)
GET ==
    <<"G", "E", "T">>
\* the literal POST (main.rs:128)
POST ==
    <<"P", "O", "S", "T">>
\* the literal / (main.rs:110)
ROOT ==
    <<"/">>
\* the literal /static/ (main.rs:118)
STATIC_PREFIX ==
    <<"/", "s", "t", "a", "t", "i", "c", "/">>
\* the literal /submit (main.rs:184)
SUBMIT ==
    <<"/", "s", "u", "b", "m", "i", "t">>
\* the literal Content-Type (main.rs:188)
CONTENT_TYPE ==
    <<"C", "o", "n", "t", "e", "n", "t", "-", "T", "y", "p", "e">>
\* the literal application/json (main.rs:189)
APPLICATION_JSON ==
    <<"a", "p", "p", "l", "i", "c", "a", "t", "i", "o", "n", "/", "j", "s", "o", "n">>
\* the literal application/x-www-form-urlencoded (main.rs:196)
FORM_URLENCODED ==
    <<"a", "p", "p", "l", "i", "c", "a", "t", "i", "o", "n", "/", "x", "-", "w", "w", "w", "-", "f", "o", "r", "m", "-", "u", "r", "l", "e", "n", "c", "o", "d", "e", "d">>
\* the literal HTTP/1.1 200 OK (main.rs:113)
STATUS_200 ==
    <<"H", "T", "T", "P", "/", "1", ".", "1", " ", "2", "0", "0", " ", "O", "K">>
\* the literal HTTP/1.1 404 NOT FOUND (main.rs:122)
STATUS_404 ==
    <<"H", "T", "T", "P", "/", "1", ".", "1", " ", "4", "0", "4", " ", "N", "O", "T", " ", "F", "O", "U", "N", "D">>
\* the literal HTTP/1.1 405 METHOD NOT ALLOWED (main.rs:132)
STATUS_405 ==
    <<"H", "T", "T", "P", "/", "1", ".", "1", " ", "4", "0", "5", " ", "M", "E", "T", "H", "O", "D", " ", "N", "O", "T", " ", "A", "L", "L", "O", "W", "E", "D">>
\* the literal HTTP/1.1 415 UNSUPPORTED MEDIA TYPE (main.rs:210)
STATUS_415 ==
    <<"H", "T", "T", "P", "/", "1", ".", "1", " ", "4", "1", "5", " ", "U", "N", "S", "U", "P", "P", "O", "R", "T", "E", "D", " ", "M", "E", "D", "I", "A", " ", "T", "Y", "P", "E">>
\* the literal \r\nContent-Type:  (main.rs:113)
HDR_CONTENT_TYPE ==
    <<"\r", "\n", "C", "o", "n", "t", "e", "n", "t", "-", "T", "y", "p", "e", ":", " ">>
\* the literal \r\nContent-Length:  (main.rs:113)
HDR_CONTENT_LENGTH ==
    <<"\r", "\n", "C", "o", "n", "t", "e", "n", "t", "-", "L", "e", "n", "g", "t", "h", ":", " ">>
\* the literal \r\n\r\n (main.rs:113)
END_OF_HEADERS ==
    <<"\r", "\n", "\r", "\n">>
\* the literal text/plain (main.rs:241)
TEXT_PLAIN ==
    <<"t", "e", "x", "t", "/", "p", "l", "a", "i", "n">>
\* the literal text/html (main.rs:235)
TEXT_HTML ==
    <<"t", "e", "x", "t", "/", "h", "t", "m", "l">>
\* the literal text/css (main.rs:236)
TEXT_CSS ==
    <<"t", "e", "x", "t", "/", "c", "s", "s">>
\* the literal application/javascript (main.rs:237)
APPLICATION_JAVASCRIPT ==
    <<"a", "p", "p", "l", "i", "c", "a", "t", "i", "o", "n", "/", "j", "a", "v", "a", "s", "c", "r", "i", "p", "t">>
\* the literal image/png (main.rs:239)
IMAGE_PNG ==
    <<"i", "m", "a", "g", "e", "/", "p", "n", "g">>
\* the literal image/jpeg (main.rs:240)
IMAGE_JPEG ==
    <<"i", "m", "a", "g", "e", "/", "j", "p", "e", "g">>
\* the literal application/octet-stream (main.rs:242)
OCTET_STREAM ==
    <<"a", "p", "p", "l", "i", "c", "a", "t", "i", "o", "n", "/", "o", "c", "t", "e", "t", "-", "s", "t", "r", "e", "a", "m">>
\* the literal html (main.rs:235)
EXT_HTML ==
    <<"h", "t", "m", "l">>
\* the literal css (main.rs:236)
EXT_CSS ==
    <<"c", "s", "s">>
\* the literal js (main.rs:237)
EXT_JS ==
    <<"j", "s">>
\* the literal json (main.rs:238)
EXT_JSON ==
    <<"j", "s", "o", "n">>
\* the literal png (main.rs:239)
EXT_PNG ==
    <<"p", "n", "g">>
\* the literal jpg (main.rs:240)
EXT_JPG ==
    <<"j", "p", "g">>
\* the literal jpeg (main.rs:240)
EXT_JPEG ==
    <<"j", "p", "e", "g">>
\* the literal txt (main.rs:241)
EXT_TXT ==
    <<"t", "x", "t">>
\* the literal Welcome to the homepage! (main.rs:111)
BODY_WELCOME ==
    <<"W", "e", "l", "c", "o", "m", "e", " ", "t", "o", " ", "t", "h", "e", " ", "h", "o", "m", "e", "p", "a", "g", "e", "!">>
\* the literal 404 Not Found (main.rs:120)
BODY_404 ==
    <<"4", "0", "4", " ", "N", "o", "t", " ", "F", "o", "u", "n", "d">>
\* the literal 405 Method Not Allowed (main.rs:130)
BODY_405 ==
    <<"4", "0", "5", " ", "M", "e", "t", "h", "o", "d", " ", "N", "o", "t", " ", "A", "l", "l", "o", "w", "e", "d">>
\* the literal 404 File Not Found (main.rs:159)
BODY_FILE_404 ==
    <<"4", "0", "4", " ", "F", "i", "l", "e", " ", "N", "o", "t", " ", "F", "o", "u", "n", "d">>
\* the literal Unsupported Content-Type (main.rs:208)
BODY_415 ==
    <<"U", "n", "s", "u", "p", "p", "o", "r", "t", "e", "d", " ", "C", "o", "n", "t", "e", "n", "t", "-", "T", "y", "p", "e">>
\* the literal Received JSON:  (main.rs:194)
RECEIVED_JSON ==
    <<"R", "e", "c", "e", "i", "v", "e", "d", " ", "J", "S", "O", "N", ":", " ">>
\* the literal Received form data:  (main.rs:201)
RECEIVED_FORM ==
    <<"R", "e", "c", "e", "i", "v", "e", "d", " ", "f", "o", "r", "m", " ", "d", "a", "t", "a", ":", " ">>

\* ------------------------------------------------ the standard library used

\* str::len / String::len: the length in bytes (UTF-8).
RECURSIVE len(_)
len(s) ==
    IF s = <<>> THEN 0
    ELSE (IF Head(s) = REPLACEMENT THEN 3 ELSE 1) + len(Tail(s))

\* char::is_whitespace, on the characters the model draws from.
is_whitespace(c) == c \in {" ", "\t", "\n", "\r"}

\* One decimal digit, as format!("{}", n) prints it.
digit(d) ==
    CASE d = 0 -> "0" [] d = 1 -> "1" [] d = 2 -> "2" [] d = 3 -> "3"
      [] d = 4 -> "4" [] d = 5 -> "5" [] d = 6 -> "6" [] d = 7 -> "7"
      [] d = 8 -> "8" [] d = 9 -> "9"

\* format!("{}", n) of a usize: decimal, no sign, no padding.
RECURSIVE to_string(_)
to_string(n) ==
    IF n < 10 THEN <<digit(n)>>
    ELSE to_string(n \div 10) \o <<digit(n % 10)>>

\* str::starts_with.
starts_with(s, prefix) ==
    /\ Len(prefix) <= Len(s)
    /\ SubSeq(s, 1, Len(prefix)) = prefix

\* str::find of a pattern: the first index where pat occurs in s, 0 for None.
RECURSIVE find_from(_, _, _)
find_from(s, pat, i) ==
    IF i + Len(pat) - 1 > Len(s) THEN 0
    ELSE IF SubSeq(s, i, i + Len(pat) - 1) = pat THEN i
    ELSE find_from(s, pat, i + 1)

\* str::split_once(pat): <<>> for None, <<before, after>> for Some, split at
\* the first occurrence of pat.
split_once(s, pat) ==
    LET i == find_from(s, pat, 1)
    IN  IF i = 0 THEN <<>>
        ELSE <<SubSeq(s, 1, i - 1), SubSeq(s, i + Len(pat), Len(s))>>

\* str::lines: the text is cut after every line feed; a piece loses its final
\* line feed and then one carriage return before it. A last piece with no
\* line feed is kept as it is, and empty text has no line.
RECURSIVE lines(_)
lines(s) ==
    IF s = <<>> THEN <<>>
    ELSE LET i == find_from(s, LF, 1)
         IN  IF i = 0 THEN <<s>>
             ELSE LET piece == SubSeq(s, 1, i - 1)
                      line == IF piece # <<>> /\ piece[Len(piece)] = "\r"
                              THEN SubSeq(piece, 1, Len(piece) - 1)
                              ELSE piece
                  IN  <<line>> \o lines(SubSeq(s, i + 1, Len(s)))

\* split_whitespace as str::split(' ') would do it: cut at every space and at
\* nothing else, empty pieces kept.
RECURSIVE split_on_space(_)
split_on_space(s) ==
    LET i == find_from(s, <<" ">>, 1)
    IN  IF i = 0 THEN <<s>>
        ELSE <<SubSeq(s, 1, i - 1)>> \o split_on_space(SubSeq(s, i + 1, Len(s)))

\* str::split_whitespace: the maximal runs of non-whitespace, in order.
RECURSIVE split_whitespace(_)
split_whitespace(s) ==
    IF s = <<>> THEN <<>>
    ELSE IF is_whitespace(Head(s)) THEN split_whitespace(Tail(s))
    ELSE LET stop == CHOOSE k \in 1..(Len(s) + 1) :
                        /\ \A j \in 1..(k - 1) : ~is_whitespace(s[j])
                        /\ k = Len(s) + 1 \/ is_whitespace(s[k])
         IN  <<SubSeq(s, 1, stop - 1)>> \o split_whitespace(SubSeq(s, stop, Len(s)))

\* Iterator::next().unwrap_or("") on a sequence of tokens, at position i.
next_or_empty(tokens, i) == IF i <= Len(tokens) THEN tokens[i] ELSE <<>>

\* [&str]::join(sep).
RECURSIVE join(_, _)
join(ss, sep) ==
    IF ss = <<>> THEN <<>>
    ELSE IF Len(ss) = 1 THEN ss[1]
    ELSE ss[1] \o sep \o join(Tail(ss), sep)

\* insert as HashMap::entry(key).or_insert(value) would do it: the first
\* value of a key is kept.
insert_if_absent(headers, key, value) ==
    IF \E kv \in headers : kv[1] = key THEN headers
    ELSE headers \cup {<<key, value>>}

\* HashMap::insert: the entry of key is replaced, the others are kept.
insert(headers, key, value) ==
    {kv \in headers : kv[1] # key} \cup {<<key, value>>}

\* HashMap::get: <<>> for None, <<value>> for Some.
get(headers, key) ==
    IF \E kv \in headers : kv[1] = key
    THEN <<(CHOOSE kv \in headers : kv[1] = key)[2]>>
    ELSE <<>>

\* str::rsplit(ch).next(): what follows the last ch, the whole text when ch
\* does not occur in it.
RECURSIVE rsplit_next(_, _)
rsplit_next(s, ch) ==
    IF s = <<>> THEN <<>>
    ELSE IF s[Len(s)] = ch THEN <<>>
    ELSE rsplit_next(SubSeq(s, 1, Len(s) - 1), ch) \o <<s[Len(s)]>>

\* String::from_utf8_lossy: every invalid byte becomes U+FFFD, the rest is kept.
RECURSIVE from_utf8_lossy(_)
from_utf8_lossy(bytes) ==
    IF bytes = <<>> THEN <<>>
    ELSE <<IF Head(bytes) = INVALID_BYTE THEN REPLACEMENT ELSE Head(bytes)>>
             \o from_utf8_lossy(Tail(bytes))

\* The components of a path: the pieces between its "/" characters.
RECURSIVE components(_)
components(p) ==
    LET i == find_from(p, <<"/">>, 1)
    IN  IF i = 0 THEN <<p>>
        ELSE <<SubSeq(p, 1, i - 1)>> \o components(SubSeq(p, i + 1, Len(p)))

\* Whether dir (a sequence of components below the working directory) is a
\* directory: the working directory itself, or one that holds a file.
is_dir(files, dir) ==
    \/ dir = <<>>
    \/ \E f \in files :
          LET cs == components(f[1])
          IN  Len(cs) > Len(dir) /\ SubSeq(cs, 1, Len(dir)) = dir

\* The operating system's walk along the components cs of a relative path,
\* from directory at: an empty component and "." stay, ".." goes up from an
\* existing directory, a name goes down. <<>> when the walk fails or leaves
\* the working directory (the model holds no file outside it), else <<place>>.
RECURSIVE walk(_, _, _)
walk(files, at, cs) ==
    IF cs = <<>> THEN <<at>>
    ELSE IF Head(cs) = <<>> \/ Head(cs) = <<".">>
    THEN IF is_dir(files, at) THEN walk(files, at, Tail(cs)) ELSE <<>>
    ELSE IF Head(cs) = <<".", ".">>
    THEN IF is_dir(files, at) /\ at # <<>>
         THEN walk(files, SubSeq(at, 1, Len(at) - 1), Tail(cs))
         ELSE <<>>
    ELSE IF is_dir(files, at) THEN walk(files, Append(at, Head(cs)), Tail(cs))
    ELSE <<>>

\* tokio::fs::read_to_string: <<>> for Err (the path names no file, or a file
\* that is not valid UTF-8), <<contents>> for Ok. files holds one entry per
\* file, under its path from the working directory.
read_to_string(files, filepath) ==
    LET place == walk(files, <<>>, components(filepath))
        found == IF place = <<>> THEN {}
                 ELSE {f \in files : components(f[1]) = place[1]}
    IN  IF found # {} /\ \A f \in found : \A i \in 1..Len(f[2]) : f[2][i] # INVALID_BYTE
        THEN <<(CHOOSE f \in found : TRUE)[2]>>
        ELSE <<>>

\* ----------------------------------------------------------------- parser

\* The loop over the lines after the first (main.rs:78-87), from line i on.
RECURSIVE parse_headers(_, _, _)
parse_headers(ls, i, headers) ==
    IF i > Len(ls) THEN [headers |-> headers, body |-> <<>>]
    ELSE IF ls[i] = <<>>
    THEN [headers |-> headers, body |-> join(SubSeq(ls, i + 1, Len(ls)), LF)]
    ELSE LET kv == split_once(ls[i], COLON_SPACE)
         IN  parse_headers(ls, i + 1,
                 IF kv = <<>> THEN headers ELSE insert(headers, kv[1], kv[2]))

\* Parses the request: the method and the path from the first line, the
\* headers from the lines up to the first empty one, the body from the rest.
parse_request_with_body(request) ==
    LET ls == lines(request)
        first_line == IF ls = <<>> THEN <<>> ELSE ls[1]
        parts == split_whitespace(first_line)
        rest == parse_headers(ls, 2, {})
    IN  [method |-> next_or_empty(parts, 1),
         path |-> next_or_empty(parts, 2),
         headers |-> rest.headers,
         body |-> rest.body]

\* ------------------------------------------------------------- responses

\* The format! of every response: status line, Content-Type, Content-Length
\* and the body after a blank line.
format_response(status_line, content_type, content_length, body) ==
    status_line \o HDR_CONTENT_TYPE \o content_type
        \o HDR_CONTENT_LENGTH \o to_string(content_length)
        \o END_OF_HEADERS \o body

\* The MIME type by the file extension: rsplit('.').next() matched against
\* the known extensions.
get_mime_type(filepath) ==
    LET ext == rsplit_next(filepath, ".")
    IN  CASE ext = EXT_HTML -> TEXT_HTML
          [] ext = EXT_CSS -> TEXT_CSS
          [] ext = EXT_JS -> APPLICATION_JAVASCRIPT
          [] ext = EXT_JSON -> APPLICATION_JSON
          [] ext = EXT_PNG -> IMAGE_PNG
          [] ext = EXT_JPG \/ ext = EXT_JPEG -> IMAGE_JPEG
          [] ext = EXT_TXT -> TEXT_PLAIN
          [] OTHER -> OCTET_STREAM

\* serve_file with a containment check: a path with a ".." component is
\* answered 404 without a read.
serve_file_contained(files, filepath) ==
    LET content == IF \E i \in 1..Len(components(filepath)) :
                          components(filepath)[i] = <<".", ".">>
                   THEN <<>>
                   ELSE read_to_string(files, filepath)
    IN  IF content # <<>>
        THEN format_response(STATUS_200, get_mime_type(filepath),
                             len(content[1]), content[1])
        ELSE format_response(STATUS_404, TEXT_PLAIN, len(BODY_FILE_404), BODY_FILE_404)

\* Serves a file: 200 with its MIME type and contents, 404 when the read fails.
serve_file(files, filepath) ==
    LET content == read_to_string(files, filepath)
    IN  IF content # <<>>
        THEN format_response(STATUS_200, get_mime_type(filepath),
                             len(content[1]), content[1])
        ELSE format_response(STATUS_404, TEXT_PLAIN, len(BODY_FILE_404), BODY_FILE_404)

\* handle_post with the content type matched by its start, so that
\* parameters after the media type are accepted.
handle_post_prefix(path, headers, body) ==
    LET content_type == get(headers, CONTENT_TYPE)
    IN  IF path = SUBMIT
        THEN IF content_type # <<>> /\ starts_with(content_type[1], APPLICATION_JSON)
             THEN format_response(STATUS_200, TEXT_PLAIN, len(body), RECEIVED_JSON \o body)
             ELSE IF content_type # <<>> /\ starts_with(content_type[1], FORM_URLENCODED)
             THEN format_response(STATUS_200, TEXT_PLAIN, len(body), RECEIVED_FORM \o body)
             ELSE format_response(STATUS_415, TEXT_PLAIN, len(BODY_415), BODY_415)
        ELSE format_response(STATUS_404, TEXT_PLAIN, len(BODY_404), BODY_404)

\* Handles a POST: /submit by its Content-Type header, any other path 404.
\* The Content-Length of the two 200 answers is body.len(), the length of
\* the request body, while the body sent is a prefix followed by it.
handle_post(path, headers, body) ==
    LET content_type == get(headers, CONTENT_TYPE)
    IN  IF path = SUBMIT
        THEN IF content_type # <<>> /\ content_type[1] = APPLICATION_JSON
             THEN format_response(STATUS_200, TEXT_PLAIN, len(body), RECEIVED_JSON \o body)
             ELSE IF content_type # <<>> /\ content_type[1] = FORM_URLENCODED
             THEN format_response(STATUS_200, TEXT_PLAIN, len(body), RECEIVED_FORM \o body)
             ELSE format_response(STATUS_415, TEXT_PLAIN, len(BODY_415), BODY_415)
        ELSE format_response(STATUS_404, TEXT_PLAIN, len(BODY_404), BODY_404)

\* route_request without the arm of the other methods: what is not POST is
\* routed as GET.
route_request_no_405(files, method, path, headers, body) ==
    IF method = POST
    THEN handle_post(path, headers, body)
    ELSE IF path = ROOT
    THEN format_response(STATUS_200, TEXT_PLAIN, len(BODY_WELCOME), BODY_WELCOME)
    ELSE IF starts_with(path, STATIC_PREFIX)
    THEN serve_file(files, SubSeq(path, 2, Len(path)))
    ELSE format_response(STATUS_404, TEXT_PLAIN, len(BODY_404), BODY_404)

\* Routes by method and path. files is the state of the file system, which
\* serve_file reads.
route_request(files, method, path, headers, body) ==
    IF method = GET
    THEN IF path = ROOT
         THEN format_response(STATUS_200, TEXT_PLAIN, len(BODY_WELCOME), BODY_WELCOME)
         ELSE IF starts_with(path, STATIC_PREFIX)
         THEN serve_file(files, SubSeq(path, 2, Len(path)))
         ELSE format_response(STATUS_404, TEXT_PLAIN, len(BODY_404), BODY_404)
    ELSE IF method = POST
    THEN handle_post(path, headers, body)
    ELSE format_response(STATUS_405, TEXT_PLAIN, len(BODY_405), BODY_405)

\* ------------------------------------------------------- what clients send

SP == <<" ">>
CRLF == <<"\r", "\n">>
HTTP11 == <<" ", "H", "T", "T", "P", "/", "1", ".", "1">>
DELETE == <<"D", "E", "L", "E", "T", "E">>
PATH_CSS == <<"/", "s", "t", "a", "t", "i", "c", "/", "a", ".", "c", "s", "s">>
PATH_MISSING == <<"/", "s", "t", "a", "t", "i", "c", "/", "n", "o">>
PATH_TRAVERSAL == <<"/", "s", "t", "a", "t", "i", "c", "/", ".", ".", "/", "s", ".", "t", "x", "t">>
PATH_BINARY == <<"/", "s", "t", "a", "t", "i", "c", "/", "b", ".", "p", "n", "g">>
PATH_OTHER == <<"/", "x">>

\* The files of the working directory in the runs explored: a style sheet and
\* a file that is not valid UTF-8 under static/, and a file beside static/.
FILE_CSS == <<SubSeq(PATH_CSS, 2, Len(PATH_CSS)), <<"b", "o", "d", "y", "{", "}">>>>
FILE_BINARY == <<SubSeq(PATH_BINARY, 2, Len(PATH_BINARY)), <<"P", INVALID_BYTE>>>>
FILE_SECRET == <<<<"s", ".", "t", "x", "t">>, <<"k", "e", "y">>>>
Disks == {{}, {FILE_CSS, FILE_BINARY, FILE_SECRET}}

\* The byte strings one read of a socket returns in the runs explored.
Requests ==
    { GET \o SP \o ROOT \o HTTP11 \o CRLF \o CRLF,
      GET \o SP \o PATH_CSS \o HTTP11 \o CRLF \o CRLF,
      GET \o SP \o PATH_TRAVERSAL \o HTTP11 \o CRLF \o CRLF,
      POST \o SP \o SUBMIT \o HTTP11 \o CRLF
          \o CONTENT_TYPE \o COLON_SPACE \o APPLICATION_JSON \o CRLF \o CRLF \o <<"{", "}">>,
      DELETE \o SP \o PATH_OTHER \o HTTP11 \o CRLF \o CRLF,
      <<INVALID_BYTE>> }

\* ------------------------------------------------- main and the tasks

Conns == 1..MaxConns

\* A connection the accept loop has not taken yet.
NoConn == [pc |-> "free", buffer |-> <<>>, response |-> <<>>, sent |-> <<>>, log |-> <<>>]

\* The task of connection c is between two of its steps.
InFlight(c) == conns[c].pc \in {"read", "route", "write"}

Init ==
    /\ listener = "init"
    /\ conns = [c \in Conns |-> NoConn]
    /\ disk \in Disks
    /\ arg = <<>>
    /\ ret = <<>>

\* TcpListener::bind succeeds (main.rs:14).
BindOk ==
    /\ listener = "init"
    /\ listener' = "listening"
    /\ UNCHANGED <<conns, disk, arg, ret>>

\* TcpListener::bind fails: main returns the error (main.rs:14).
BindFail ==
    /\ listener = "init"
    /\ listener' = "bind_failed"
    /\ UNCHANGED <<conns, disk, arg, ret>>

\* listener.accept() returns a connection and its task is spawned (main.rs:19-23).
Accept(c) ==
    /\ listener = "listening"
    /\ conns[c].pc = "free"
    /\ \A d \in Conns : d < c => conns[d].pc # "free"
    /\ conns' = [conns EXCEPT ![c].pc = "read"]
    /\ UNCHANGED <<listener, disk, arg, ret>>

\* listener.accept() returns an error: the ? of main.rs:19 returns it from
\* main, the runtime is dropped and with it every task still in flight.
AcceptFail ==
    /\ listener = "listening"
    /\ listener' = "accept_failed"
    /\ conns' = [c \in Conns |->
                    IF InFlight(c) THEN [conns[c] EXCEPT !.pc = "cancelled"] ELSE conns[c]]
    /\ UNCHANGED <<disk, arg, ret>>

\* socket.read returns Ok(0) (main.rs:26-29).
ReadZero(c) ==
    /\ conns[c].pc = "read"
    /\ conns' = [conns EXCEPT ![c].pc = "closed", ![c].log = Append(@, "read_zero")]
    /\ UNCHANGED <<listener, disk, arg, ret>>

\* socket.read returns Err (main.rs:31-34).
ReadErr(c) ==
    /\ conns[c].pc = "read"
    /\ conns' = [conns EXCEPT ![c].pc = "read_failed", ![c].log = Append(@, "read_err")]
    /\ UNCHANGED <<listener, disk, arg, ret>>

\* socket.read returns Ok(n), n > 0, with the bytes in the buffer (main.rs:30).
ReadOk(c) ==
    /\ conns[c].pc = "read"
    /\ \E bytes \in Requests :
          conns' = [conns EXCEPT ![c].pc = "route", ![c].buffer = bytes,
                                 ![c].log = Append(@, "read_ok")]
    /\ UNCHANGED <<listener, disk, arg, ret>>

\* The response to the bytes read: lossy decoding, the parser, the router
\* (main.rs:38-44).
respond(files, bytes) ==
    LET req == parse_request_with_body(from_utf8_lossy(bytes))
    IN  route_request(files, req.method, req.path, req.headers, req.body)

\* The task parses and routes what it read (main.rs:38-44).
Route(c) ==
    /\ conns[c].pc = "route"
    /\ conns' = [conns EXCEPT ![c].pc = "write",
                              ![c].response = respond(disk, conns[c].buffer),
                              ![c].log = @ \o <<"parse", "route">>]
    /\ UNCHANGED <<listener, disk, arg, ret>>

\* socket.write_all succeeds (main.rs:47-50).
WriteOk(c) ==
    /\ conns[c].pc = "write"
    /\ conns' = [conns EXCEPT ![c].pc = "done", ![c].sent = conns[c].response,
                              ![c].log = Append(@, "write_ok")]
    /\ UNCHANGED <<listener, disk, arg, ret>>

\* WriteErr with a retry: after a failed write the task writes again.
WriteErr_retry(c) ==
    /\ conns[c].pc = "write"
    /\ conns' = [conns EXCEPT ![c].log = Append(@, "write_err")]
    /\ UNCHANGED <<listener, disk, arg, ret>>

\* socket.write_all fails: the error is logged and the task ends (main.rs:47-48).
WriteErr(c) ==
    /\ conns[c].pc = "write"
    /\ conns' = [conns EXCEPT ![c].pc = "write_failed", ![c].log = Append(@, "write_err")]
    /\ UNCHANGED <<listener, disk, arg, ret>>

Next ==
    \/ BindOk
    \/ BindFail
    \/ AcceptFail
    \/ \E c \in Conns : Accept(c)
    \/ \E c \in Conns : ReadZero(c)
    \/ \E c \in Conns : ReadErr(c)
    \/ \E c \in Conns : ReadOk(c)
    \/ \E c \in Conns : Route(c)
    \/ \E c \in Conns : WriteOk(c)
    \/ \E c \in Conns : WriteErr(c)

Spec == Init /\ [][Next]_vars

\* ------------------------------------------- the functions, called alone

\* The state of main and the tasks in the specifications that call one
\* function alone: nothing is bound and no connection is taken.
Idle ==
    /\ listener = "init"
    /\ conns = [c \in Conns |-> NoConn]

\* All sequences of at most n elements of S.
SeqsUpTo(S, n) == UNION {[1..k -> S] : k \in 0..n}

\* The concatenation of a sequence of texts.
RECURSIVE concat(_)
concat(ss) == IF ss = <<>> THEN <<>> ELSE Head(ss) \o concat(Tail(ss))

\* --- get_mime_type

PathPieces ==
    { EXT_HTML, EXT_CSS, EXT_JS, EXT_JSON, EXT_PNG, EXT_JPG, EXT_JPEG, EXT_TXT,
      <<".">>, <<"/">>, <<"a">>, <<"H", "T", "M", "L">> }

MimePaths == {concat(ps) : ps \in SeqsUpTo(PathPieces, MaxPathPieces)}

InitMime ==
    /\ Idle
    /\ disk = {}
    /\ arg \in MimePaths
    /\ ret = <<>>

MimeCall ==
    /\ ret = <<>>
    /\ ret' = <<get_mime_type(arg)>>
    /\ UNCHANGED <<listener, conns, disk, arg>>

NextMime == MimeCall

SpecMime == InitMime /\ [][NextMime]_vars

\* --- parse_request_with_body

\* The lines a request is built from: none holds a line feed or ends with a
\* carriage return, so each is one line of the text built.
LinePool ==
    { <<>>,
      <<"\t", "G", "E", "T", " ", "/", "a", "\r", "H">>,
      <<" ">>,
      <<"A", ":", " ", "b">>,
      <<"A", ":", " ", "c", ":", " ", "d">>,
      <<"a", ":", " ">> }

\* The text of the lines ls, each ended by eol, the last one only if terminated.
RECURSIVE assemble(_, _, _)
assemble(ls, eol, terminated) ==
    IF ls = <<>> THEN <<>>
    ELSE IF Len(ls) = 1 THEN ls[1] \o (IF terminated THEN eol ELSE <<>>)
    ELSE ls[1] \o eol \o assemble(Tail(ls), eol, terminated)

\* The requests given to the parser: the text and the lines it was built from.
\* A last line is left unterminated only if it is not empty (an empty
\* unterminated last line is no line of the text).
ParseInputs ==
    { [lines |-> ls, eol |-> eol, terminated |-> t, text |-> assemble(ls, eol, t)] :
        ls \in SeqsUpTo(LinePool, MaxLines), eol \in {LF, CRLF}, t \in BOOLEAN }

ParseInputOk(a) ==
    /\ a.lines = <<>> => a.terminated /\ a.eol = LF
    /\ ~a.terminated => a.lines # <<>> /\ a.lines[Len(a.lines)] # <<>>

InitParse ==
    /\ Idle
    /\ disk = {}
    /\ arg \in {a \in ParseInputs : ParseInputOk(a)}
    /\ ret = <<>>

ParseCall ==
    /\ ret = <<>>
    /\ ret' = <<parse_request_with_body(arg.text)>>
    /\ UNCHANGED <<listener, conns, disk, arg>>

NextParse == ParseCall

SpecParse == InitParse /\ [][NextParse]_vars

\* --- route_request

Methods ==
    { GET, POST, DELETE, <<>>, <<"g", "e", "t">>, <<"p", "o", "s", "t">> }

Paths ==
    { ROOT, PATH_CSS, PATH_MISSING, PATH_TRAVERSAL, PATH_BINARY, PATH_OTHER,
      SUBMIT, SUBMIT \o <<"/">>, STATIC_PREFIX,
      SubSeq(STATIC_PREFIX, 1, Len(STATIC_PREFIX) - 1), <<>> }

JSON_CHARSET == APPLICATION_JSON \o <<";", " ", "c", "h", "a", "r", "s", "e", "t", "=", "u", "t", "f", "-", "8">>
LOWER_CONTENT_TYPE == <<"c", "o", "n", "t", "e", "n", "t", "-", "t", "y", "p", "e">>

HeaderEntries ==
    {CONTENT_TYPE, LOWER_CONTENT_TYPE}
        \X {APPLICATION_JSON, FORM_URLENCODED, JSON_CHARSET, TEXT_PLAIN}

\* The headers maps: at most MaxHeaders entries, one per key.
HeaderMaps ==
    { h \in SUBSET HeaderEntries :
        /\ Cardinality(h) <= MaxHeaders
        /\ \A x, y \in h : x[1] = y[1] => x = y }

\* The characters of a request body: one of one byte, one of three bytes.
BodyChars == {"a", REPLACEMENT}

Bodies == SeqsUpTo(BodyChars, MaxBodyLen)

InitRoute ==
    /\ Idle
    /\ disk \in Disks
    /\ arg \in [method : Methods, path : Paths, headers : HeaderMaps, body : Bodies]
    /\ ret = <<>>

RouteCall ==
    /\ ret = <<>>
    /\ ret' = <<route_request(disk, arg.method, arg.path, arg.headers, arg.body)>>
    /\ UNCHANGED <<listener, conns, disk, arg>>

NextRoute == RouteCall

SpecRoute == InitRoute /\ [][NextRoute]_vars

\* ------------------------------------------------------------ properties

\* What a response says, read back from its text.

CONTENT_LENGTH == <<"C", "o", "n", "t", "e", "n", "t", "-", "L", "e", "n", "g", "t", "h">>

\* The text of resp after its first blank line.
RespBody(resp) ==
    LET i == CHOOSE k \in 1..(Len(resp) - 3) :
                 /\ SubSeq(resp, k, k + 3) = END_OF_HEADERS
                 /\ \A j \in 1..(k - 1) : SubSeq(resp, j, j + 3) # END_OF_HEADERS
    IN  SubSeq(resp, i + 4, Len(resp))

\* The head of resp: the status line and the header lines, up to the blank line.
RespHead(resp) == SubSeq(resp, 1, Len(resp) - Len(RespBody(resp)) - 4)

\* The three digits of the status code.
RespStatus(resp) == SubSeq(resp, 10, 12)

\* The value of header name in the head of resp.
RespHeader(resp, name) ==
    LET head == RespHead(resp) \o CRLF
        intro == CRLF \o name \o COLON_SPACE
        i == CHOOSE k \in 1..(Len(head) - Len(intro) + 1) :
                 SubSeq(head, k, k + Len(intro) - 1) = intro
        from == i + Len(intro)
        to == CHOOSE k \in from..(Len(head) - 1) :
                 /\ SubSeq(head, k, k + 1) = CRLF
                 /\ \A j \in from..(k - 1) : SubSeq(head, j, j + 1) # CRLF
    IN  SubSeq(head, from, to - 1)

\* The number a text of decimal digits writes.
RECURSIVE Number(_)
Number(ds) ==
    IF ds = <<>> THEN 0
    ELSE 10 * Number(SubSeq(ds, 1, Len(ds) - 1))
           + (CHOOSE d \in 0..9 : digit(d) = ds[Len(ds)])

\* An answer of the server: a status line of HTTP/1.1, then exactly the
\* Content-Type and Content-Length headers, a blank line and a body.
IsResponse(resp) ==
    /\ Len(resp) >= 12
    /\ \E k \in 1..(Len(resp) - 3) : SubSeq(resp, k, k + 3) = END_OF_HEADERS
    /\ SubSeq(resp, 1, 9) = <<"H", "T", "T", "P", "/", "1", ".", "1", " ">>
    /\ \A i \in 1..3 : \E d \in 0..9 : RespStatus(resp)[i] = digit(d)
    /\ Len(lines(RespHead(resp) \o CRLF)) = 3
    /\ starts_with(lines(RespHead(resp) \o CRLF)[2], CONTENT_TYPE \o COLON_SPACE)
    /\ starts_with(lines(RespHead(resp) \o CRLF)[3],
                   CONTENT_LENGTH \o COLON_SPACE)

CODE_200 == <<"2", "0", "0">>
CODE_404 == <<"4", "0", "4">>
CODE_405 == <<"4", "0", "5">>
CODE_415 == <<"4", "1", "5">>

\* The position of every character c in text s.
Positions(s, c) == {i \in 1..Len(s) : s[i] = c}

\* s occurs in t.
IsSubstring(s, t) ==
    \E i \in 1..(Len(t) - Len(s) + 1) : SubSeq(t, i, i + Len(s) - 1) = s

\* --- C9

\* C9 (as claimed): once the listener is bound, no error met while serving
\* stops the server: the accept loop is never left and no task in flight is
\* cut short; only a failure to bind ends the process.
C9_OnlyBindFailureStopsTheServer ==
    /\ listener \in {"init", "bind_failed", "listening"}
    /\ \A c \in Conns : conns[c].pc # "cancelled"

\* --- C10

\* The steps a task can have logged, in order.
TaskLogs ==
    { <<>>, <<"read_zero">>, <<"read_err">>, <<"read_ok">>,
      <<"read_ok", "parse", "route">>,
      <<"read_ok", "parse", "route", "write_ok">>,
      <<"read_ok", "parse", "route", "write_err">> }

\* C10: in every interleaving each connection reads once, then parses,
\* routes and writes at most once, in that order; what is written is the
\* response to the bytes of that connection's own successful read; after a
\* read of zero bytes or a failed read nothing is written; nothing is retried.
C10_OneReadThenAtMostOneWrite ==
    \A c \in Conns :
        /\ conns[c].log \in TaskLogs
        /\ conns[c].pc \in {"free", "read"} => conns[c].log = <<>>
        /\ conns[c].pc \in {"closed", "read_failed"} =>
              /\ conns[c].log \in {<<"read_zero">>, <<"read_err">>}
              /\ conns[c].response = <<>>
        /\ conns[c].response # <<>> =>
              /\ conns[c].buffer # <<>>
              /\ conns[c].response = respond(disk, conns[c].buffer)
        /\ IF conns[c].log = <<"read_ok", "parse", "route", "write_ok">>
           THEN conns[c].sent = respond(disk, conns[c].buffer)
           ELSE conns[c].sent = <<>>

\* Two connections interleaved: one has failed its read and written nothing,
\* the other, taken later, has written its response.
C10_Witness ==
    \E c, d \in Conns :
        /\ c < d
        /\ conns[c].pc = "read_failed" /\ conns[c].sent = <<>>
        /\ conns[d].pc = "done" /\ IsResponse(conns[d].sent)
        /\ RespStatus(conns[d].sent) = CODE_200

\* --- C7

\* The content type the claim gives a path: by what follows its last ".",
\* application/octet-stream when it holds no ".".
MimeByExtension(filepath) ==
    IF Positions(filepath, ".") = {} THEN OCTET_STREAM
    ELSE LET dot == CHOOSE i \in Positions(filepath, ".") :
                       \A j \in Positions(filepath, ".") : j <= i
             ext == SubSeq(filepath, dot + 1, Len(filepath))
         IN  CASE ext = EXT_HTML -> TEXT_HTML
               [] ext = EXT_CSS -> TEXT_CSS
               [] ext = EXT_JS -> APPLICATION_JAVASCRIPT
               [] ext = EXT_JSON -> APPLICATION_JSON
               [] ext = EXT_PNG -> IMAGE_PNG
               [] ext = EXT_JPG -> IMAGE_JPEG
               [] ext = EXT_JPEG -> IMAGE_JPEG
               [] ext = EXT_TXT -> TEXT_PLAIN
               [] OTHER -> OCTET_STREAM

\* C7 (as claimed): get_mime_type gives every path the content type of the
\* text after its last ".", and application/octet-stream to every other
\* extension and to every path with no "." at all.
C7_MimeByTextAfterLastDot ==
    ret # <<>> => ret[1] = MimeByExtension(arg)

\* --- C4

\* Where the tokens of a line start: a character that is not whitespace, at
\* the start of the line or after whitespace.
TokenStarts(line) ==
    {i \in 1..Len(line) :
        ~is_whitespace(line[i]) /\ (i = 1 \/ is_whitespace(line[i - 1]))}

\* The token of a line that starts at i: up to the next whitespace or the end.
TokenAt(line, i) ==
    LET stop == CHOOSE e \in i..Len(line) :
                    /\ \A j \in i..e : ~is_whitespace(line[j])
                    /\ e = Len(line) \/ is_whitespace(line[e + 1])
    IN  SubSeq(line, i, stop)

\* The n-th whitespace-separated token of a line, empty text if there is none.
Token(line, n) ==
    IF Cardinality(TokenStarts(line)) < n THEN <<>>
    ELSE TokenAt(line, CHOOSE i \in TokenStarts(line) :
                          Cardinality({j \in TokenStarts(line) : j < i}) = n - 1)

\* The first line of the request built from ls, empty text when it has none.
RequestLine(ls) == IF ls = <<>> THEN <<>> ELSE ls[1]

\* C4: the parser answers every text; the method is the first
\* whitespace-separated token of the first line and the path the second
\* (empty text when absent), whatever tokens follow; empty text gives an
\* empty method, an empty path, no headers and an empty body.
C4_MethodAndPathAreFirstTwoTokens ==
    ret # <<>> =>
        /\ ret[1].method = Token(RequestLine(arg.lines), 1)
        /\ ret[1].path = Token(RequestLine(arg.lines), 2)
        /\ arg.text = <<>> =>
              ret[1] = [method |-> <<>>, path |-> <<>>, headers |-> {}, body |-> <<>>]

\* A request line of three tokens, parsed: the third is in neither field.
C4_Witness ==
    /\ ret # <<>>
    /\ Cardinality(TokenStarts(RequestLine(arg.lines))) = 3
    /\ ret[1].method = GET
    /\ ret[1].path = <<"/", "a">>
    /\ Len(arg.lines) > 1

\* --- C5

\* The index of the first empty line after the request line, one past the
\* last line when there is none.
BlankLine(ls) ==
    IF \E i \in 2..Len(ls) : ls[i] = <<>>
    THEN CHOOSE i \in 2..Len(ls) : ls[i] = <<>> /\ \A j \in 2..(i - 1) : ls[j] # <<>>
    ELSE Len(ls) + 1

\* Where ": " occurs in a line.
Separators(line) == {i \in 1..(Len(line) - 1) : SubSeq(line, i, i + 1) = COLON_SPACE}

FirstSeparator(line) ==
    CHOOSE i \in Separators(line) : \A j \in Separators(line) : i <= j

HeaderKey(line) == SubSeq(line, 1, FirstSeparator(line) - 1)

HeaderValue(line) == SubSeq(line, FirstSeparator(line) + 2, Len(line))

\* The header lines of a request: those strictly between the request line
\* and the first empty line that hold ": ".
HeaderLines(ls) == {i \in 2..(BlankLine(ls) - 1) : Separators(ls[i]) # {}}

\* The entries the header lines give, the last line of a key deciding.
HeadersOf(ls) ==
    { <<HeaderKey(ls[i]), HeaderValue(ls[i])>> :
        i \in {i \in HeaderLines(ls) :
                  \A j \in HeaderLines(ls) :
                      j > i => HeaderKey(ls[j]) # HeaderKey(ls[i])} }

\* C5: the headers map holds exactly the entries of the lines strictly
\* between the request line and the first empty line: each line with ": " is
\* split at its first ": ", lines without it give nothing, keys keep their
\* case, the last line of a key gives its value, and no line after the first
\* empty line gives a header.
C5_HeadersAreTheLinesBeforeTheBlankLine ==
    ret # <<>> => ret[1].headers = HeadersOf(arg.lines)

\* A request parsed whose header lines repeat a key with another value, hold
\* a value with ": " in it, and whose body holds a line shaped like a header.
C5_Witness ==
    /\ ret # <<>>
    /\ \E i, j \in HeaderLines(arg.lines) :
          /\ i < j
          /\ HeaderKey(arg.lines[i]) = HeaderKey(arg.lines[j])
          /\ HeaderValue(arg.lines[i]) # HeaderValue(arg.lines[j])
          /\ Separators(HeaderValue(arg.lines[j])) # {}
    /\ \E i \in (BlankLine(arg.lines) + 1)..Len(arg.lines) :
          /\ Separators(arg.lines[i]) # {}
          /\ \A kv \in ret[1].headers : kv[1] # HeaderKey(arg.lines[i])

\* --- C6

\* The text of a request after its first empty line, as received.
ContentAfterBlankLine(a) ==
    LET k == BlankLine(a.lines)
        before == concat([i \in 1..k |-> a.lines[i] \o a.eol])
    IN  SubSeq(a.text, Len(before) + 1, Len(a.text))

\* C6 (as claimed): the body is the text after the first empty line,
\* verbatim (content B after the blank line gives body B), and it is empty
\* when no empty line follows the request line.
C6_BodyIsTheContentAfterTheBlankLine ==
    ret # <<>> =>
        IF BlankLine(arg.lines) <= Len(arg.lines)
        THEN ret[1].body = ContentAfterBlankLine(arg)
        ELSE ret[1].body = <<>>

\* --- C1

\* C1 (as claimed): in every response of route_request the number in the
\* Content-Length header is the length in bytes of the body after the blank
\* line.
C1_ContentLengthIsBodyLength ==
    ret # <<>> =>
        Number(RespHeader(ret[1], CONTENT_LENGTH)) = len(RespBody(ret[1]))

\* --- C2

\* The path starts with "/static/".
HasStaticPrefix(path) ==
    /\ Len(path) >= Len(STATIC_PREFIX)
    /\ \A i \in 1..Len(STATIC_PREFIX) : path[i] = STATIC_PREFIX[i]

\* C2: route_request answers every (method, path, headers, body) with one
\* response, by the route table: GET / is 200 with the welcome text, GET of
\* a path under /static/ is the static file server's answer, any other GET
\* is 404, POST is the POST handler's answer (404 unless the path is
\* /submit), and any other method, the empty one and lower-case get and
\* post included, is 405 whatever the path.
C2_RouteTable ==
    ret # <<>> =>
        /\ IsResponse(ret[1])
        /\ arg.method = GET /\ arg.path = ROOT =>
              /\ RespStatus(ret[1]) = CODE_200
              /\ RespBody(ret[1]) = BODY_WELCOME
        /\ arg.method = GET /\ HasStaticPrefix(arg.path) =>
              ret[1] = serve_file(disk, Tail(arg.path))
        /\ arg.method = GET /\ arg.path # ROOT /\ ~HasStaticPrefix(arg.path) =>
              /\ RespStatus(ret[1]) = CODE_404
              /\ RespBody(ret[1]) = BODY_404
        /\ arg.method = POST =>
              /\ ret[1] = handle_post(arg.path, arg.headers, arg.body)
              /\ arg.path # SUBMIT => RespStatus(ret[1]) = CODE_404
        /\ arg.method \notin {GET, POST} =>
              /\ RespStatus(ret[1]) = CODE_405
              /\ RespBody(ret[1]) = BODY_405

\* A lower-case get of the home page has been answered 405.
C2_Witness ==
    /\ ret # <<>>
    /\ arg.method = <<"g", "e", "t">>
    /\ arg.path = ROOT
    /\ RespStatus(ret[1]) = CODE_405

\* --- C3

\* The headers hold the key Content-Type, spelled so, with one of the two
\* accepted values.
AcceptedContentType(headers) ==
    \E kv \in headers :
        /\ kv[1] = CONTENT_TYPE
        /\ kv[2] \in {APPLICATION_JSON, FORM_URLENCODED}

\* C3: a POST to /submit is answered 200 exactly when the headers hold the
\* key Content-Type with the value application/json or
\* application/x-www-form-urlencoded, and then the response body holds the
\* request body as it came; any other value, a key of another case and no
\* such header are answered 415 with the body "Unsupported Content-Type".
C3_SubmitAcceptsTwoContentTypes ==
    ret # <<>> /\ arg.method = POST /\ arg.path = SUBMIT =>
        IF AcceptedContentType(arg.headers)
        THEN /\ RespStatus(ret[1]) = CODE_200
             /\ IsSubstring(arg.body, RespBody(ret[1]))
        ELSE /\ RespStatus(ret[1]) = CODE_415
             /\ RespBody(ret[1]) = BODY_415

\* A POST to /submit whose only header is content-type: application/json, in
\* lower case, has been answered 415.
C3_Witness ==
    /\ ret # <<>>
    /\ arg.method = POST /\ arg.path = SUBMIT
    /\ arg.headers = {<<LOWER_CONTENT_TYPE, APPLICATION_JSON>>}
    /\ arg.body # <<>>
    /\ RespStatus(ret[1]) = CODE_415

\* --- C8

\* C8: a GET of a path under /static/ reads the file named by the path
\* without its first character, nothing else changed (".." is passed on as
\* it is); a read that succeeds is answered 200 with the content type of the
\* MIME resolver for that path and the file's contents as body, a read that
\* fails for any reason is answered 404 with the body "404 File Not Found".
C8_StaticFileOrNotFound ==
    ret # <<>> /\ arg.method = GET /\ HasStaticPrefix(arg.path) =>
        LET filepath == Tail(arg.path)
            content == read_to_string(disk, filepath)
        IN  IF content # <<>>
            THEN /\ RespStatus(ret[1]) = CODE_200
                 /\ RespHeader(ret[1], CONTENT_TYPE) = MimeByExtension(filepath)
                 /\ RespBody(ret[1]) = content[1]
            ELSE /\ RespStatus(ret[1]) = CODE_404
                 /\ RespBody(ret[1]) = BODY_FILE_404

\* GET /static/../s.txt has been answered 200 with the contents of s.txt, a
\* file of the working directory outside static/.
C8_Witness ==
    /\ ret # <<>>
    /\ arg.method = GET
    /\ arg.path = PATH_TRAVERSAL
    /\ FILE_SECRET \in disk
    /\ RespStatus(ret[1]) = CODE_200
    /\ RespBody(ret[1]) = FILE_SECRET[2]

====
